---- MODULE Spec2Model ----
(***************************************************************************)
(* Model of clean_raw_chats.py: the transcript segmentation, parsing,      *)
(* cleaning, filtering and aggregation pipeline, and the batch driver.     *)
(*                                                                         *)
(* Text is modelled character by character: a string is a sequence of      *)
(* one-character strings.  Three characters that cannot be written in a    *)
(* TLA+ string literal are named: "NL" is the newline, "LRM" a             *)
(* non-printable mark (U+200E), "EMOJI" a code point of EMOJI_PATTERN's    *)
(* ranges.  The mis-encoded letters of the acknowledgment list are named   *)
(* by their code points ("U+00FC", ...).                                   *)
(*                                                                         *)
(* Regular expressions are modelled by a backtracking matcher over a       *)
(* pattern tree; every pattern of the source is a tree written from its    *)
(* text.                                                                   *)
(***************************************************************************)
EXTENDS Integers, Sequences, FiniteSets, TLC

VARIABLES
    folder,              \* os.listdir(CHAT_FOLDER), filtered: the input files, each a list of raw lines
    fileIdx,             \* position of the for loop of process_all_chats
    pc,                  \* control position
    lines,               \* f.readlines() of the current file
    message_blocks,      \* blocks of the current file
    blkIdx,              \* position of the for loop over message_blocks
    daily_conversations, \* date -> list of entries, in insertion order: <<date, entries>> pairs
    peers_by_date,       \* date -> peer
    peer_name,           \* None or the file-wide peer
    logs,                \* per input file, the entries written to its skip log
    conversations,       \* the list process_chat_file returns
    all_conversations,   \* the master list of process_all_chats
    out_files,           \* the files written to OUT_FOLDER: <<name, content>> pairs
    returned,            \* history: per processed file, what process_chat_file returned
    arg,                 \* input of the pure function under check
    res                  \* its result

vars == <<folder, fileIdx, pc, lines, message_blocks, blkIdx, daily_conversations,
          peers_by_date, peer_name, logs, conversations, all_conversations,
          out_files, returned, arg, res>>

--------------------------------------------------------------------------
(* Characters *)

Digit == {"0", "1", "2", "3", "4", "5", "6", "7", "8", "9"}

UpperSeq == <<"A", "B", "C", "D", "E", "F", "G", "H", "I", "J", "K", "L", "M",
              "N", "O", "P", "Q", "R", "S", "T", "U", "V", "W", "X", "Y", "Z">>

LowerSeq == <<"a", "b", "c", "d", "e", "f", "g", "h", "i", "j", "k", "l", "m",
              "n", "o", "p", "q", "r", "s", "t", "u", "v", "w", "x", "y", "z">>

Range(s) == {s[i] : i \in 1..Len(s)}

Upper == Range(UpperSeq)

\* the letters of the mis-encoded acknowledgment tokens are lower-case letters
Lower == Range(LowerSeq) \cup {"U+00FC", "U+00EB", "U+00E7", "U+00E5"}

WordChar == Digit \cup Upper \cup Lower \cup {"_"}

WhiteSpace == {" ", "NL"}

NonPrintable == {"NL", "LRM"}

EmojiChar == {"EMOJI"}

\* str.lower() of one character
LowerOf(c) ==
    IF c \in Upper THEN LowerSeq[CHOOSE i \in 1..26 : UpperSeq[i] = c] ELSE c

ToLower(s) == [i \in 1..Len(s) |-> LowerOf(s[i])]

DigitVal(c) ==
    CASE c = "0" -> 0 [] c = "1" -> 1 [] c = "2" -> 2 [] c = "3" -> 3 [] c = "4" -> 4
      [] c = "5" -> 5 [] c = "6" -> 6 [] c = "7" -> 7 [] c = "8" -> 8 [] c = "9" -> 9

DigitChar(n) ==
    CASE n = 0 -> "0" [] n = 1 -> "1" [] n = 2 -> "2" [] n = 3 -> "3" [] n = 4 -> "4"
      [] n = 5 -> "5" [] n = 6 -> "6" [] n = 7 -> "7" [] n = 8 -> "8" [] n = 9 -> "9"

--------------------------------------------------------------------------
(* The regular expression matcher.                                         *)
(* A pattern is a tree of records; a matcher state is <<pos, caps>>: the   *)
(* position of the next character and the spans of the groups closed so    *)
(* far.  Match yields the ways a pattern matches from a state, in the      *)
(* order a backtracking matcher tries them, so the head is re's match.     *)

Cls(S) == [t |-> "cls", s |-> S, neg |-> FALSE]
NotCls(S) == [t |-> "cls", s |-> S, neg |-> TRUE]
Lit(s) == [t |-> "lit", s |-> s, ic |-> FALSE]      \* a literal text
LitI(s) == [t |-> "lit", s |-> s, ic |-> TRUE]      \* the same under re.IGNORECASE
Seqn(xs) == [t |-> "seq", xs |-> xs]
Alt(xs) == [t |-> "alt", xs |-> xs]
Rep(x, lo, hi) == [t |-> "rep", x |-> x, lo |-> lo, hi |-> hi, greedy |-> TRUE]
Lazy(x, lo, hi) == [t |-> "rep", x |-> x, lo |-> lo, hi |-> hi, greedy |-> FALSE]
Opt(x) == Rep(x, 0, 1)
Grp(x) == [t |-> "grp", x |-> x]
WordB == [t |-> "wb"]
Bol == [t |-> "bol"]
Eol == [t |-> "eol"]
Inf == 0 - 1

D == Cls(Digit)                 \* \d
AnyChar == NotCls({"NL"})       \* .
SpaceCls == Cls(WhiteSpace)     \* \s

IsWordAt(s, i) == i >= 1 /\ i <= Len(s) /\ s[i] \in WordChar

InCls(n, c) == (c \in n.s) # n.neg

\* whether the literal n is the text of s at position i
LitAt(n, s, i) ==
    /\ i + Len(n.s) - 1 <= Len(s)
    /\ \A k \in 1..Len(n.s) :
          IF n.ic THEN LowerOf(s[i + k - 1]) = LowerOf(n.s[k]) ELSE s[i + k - 1] = n.s[k]

Least(S) == CHOOSE j \in S : \A k \in S : j <= k

Greatest(S) == CHOOSE j \in S : \A k \in S : j >= k

\* the longest run of characters of class c from position i, hi at most
RunLen(c, s, i, hi) ==
    Greatest({k \in 0..(IF hi = Inf \/ hi > Len(s) - i + 1 THEN Len(s) - i + 1 ELSE hi) :
                 \A j \in 1..k : InCls(c, s[i + j - 1])})

\* a repeated class whose longest run is of max characters: the longest first
\* when greedy, the shortest first when lazy
RunEnds(n, st, max) ==
    IF max < n.lo THEN <<>>
    ELSE [k \in 1..(max - n.lo + 1) |->
            <<IF n.greedy THEN st[1] + max - (k - 1) ELSE st[1] + n.lo + (k - 1), st[2]>>]

RECURSIVE Match(_, _, _), MatchAll(_, _, _), MatchSeq(_, _, _, _),
          MatchAlt(_, _, _, _), MatchRep(_, _, _, _), MatchRepAll(_, _, _, _)

\* the results of n from each state of sts, in order
MatchAll(n, s, sts) ==
    IF sts = <<>> THEN <<>>
    ELSE IF Len(sts) = 1 THEN Match(n, s, sts[1])
    ELSE MatchAll(n, s, SubSeq(sts, 1, Len(sts) \div 2))
            \o MatchAll(n, s, SubSeq(sts, Len(sts) \div 2 + 1, Len(sts)))

MatchSeq(xs, k, s, sts) ==
    IF k > Len(xs) \/ sts = <<>> THEN sts
    ELSE MatchSeq(xs, k + 1, s, MatchAll(xs[k], s, sts))

MatchAlt(xs, k, s, st) ==
    IF k > Len(xs) THEN <<>>
    ELSE Match(xs[k], s, st) \o MatchAlt(xs, k + 1, s, st)

MatchRepAll(n, s, sts, cnt) ==
    IF sts = <<>> THEN <<>>
    ELSE IF Len(sts) = 1 THEN MatchRep(n, s, sts[1], cnt)
    ELSE MatchRepAll(n, s, SubSeq(sts, 1, Len(sts) \div 2), cnt)
            \o MatchRepAll(n, s, SubSeq(sts, Len(sts) \div 2 + 1, Len(sts)), cnt)

\* greedy: one more repetition is tried before stopping; lazy: after
InOrder(greedy, more, stop) == IF greedy THEN more \o stop ELSE stop \o more

MatchRep(n, s, st, cnt) ==
    InOrder(n.greedy,
            IF n.hi = Inf \/ cnt < n.hi
            THEN MatchRepAll(n, s, SelectSeq(Match(n.x, s, st), LAMBDA r : r[1] # st[1]),
                             cnt + 1)
            ELSE <<>>,
            IF cnt >= n.lo THEN <<st>> ELSE <<>>)

\* the group that opened at start closes at each of rs
CloseGroup(rs, start) ==
    [i \in 1..Len(rs) |-> <<rs[i][1], Append(rs[i][2], <<start, rs[i][1] - 1>>)>>]

Match(n, s, st) ==
    CASE n.t = "cls" ->
            IF st[1] <= Len(s) /\ InCls(n, s[st[1]])
            THEN <<<<st[1] + 1, st[2]>>>> ELSE <<>>
      [] n.t = "lit" ->
            IF LitAt(n, s, st[1]) THEN <<<<st[1] + Len(n.s), st[2]>>>> ELSE <<>>
      [] n.t = "seq" -> MatchSeq(n.xs, 1, s, <<st>>)
      [] n.t = "alt" -> MatchAlt(n.xs, 1, s, st)
      [] n.t = "rep" ->
            IF n.x.t = "cls" THEN RunEnds(n, st, RunLen(n.x, s, st[1], n.hi))
            ELSE MatchRep(n, s, st, 0)
      [] n.t = "grp" -> CloseGroup(Match(n.x, s, st), st[1])
      [] n.t = "wb" ->
            IF IsWordAt(s, st[1] - 1) # IsWordAt(s, st[1]) THEN <<st>> ELSE <<>>
      [] n.t = "bol" -> IF st[1] = 1 THEN <<st>> ELSE <<>>
      [] n.t = "eol" ->
            IF st[1] = Len(s) + 1 \/ (st[1] = Len(s) /\ s[Len(s)] = "NL")
            THEN <<st>> ELSE <<>>

\* the first of the ways to match: <<>> for none, else <<the match state>>
First(rs) == IF rs = <<>> THEN <<>> ELSE <<Head(rs)>>

\* re.match(p, s): <<>> for None, else <<the match state>>
ReMatch(p, s) == First(Match(p, s, <<1, <<>>>>))

EndsAt(rs, e) == \E i \in 1..Len(rs) : rs[i][1] = e

\* re.fullmatch(p, s) is not None
ReFullMatch(p, s) == EndsAt(Match(p, s, <<1, <<>>>>), Len(s) + 1)

\* re.sub(p, repl, s): leftmost non-overlapping matches replaced
RECURSIVE SubFrom(_, _, _, _)

\* the match at j ends at e: the text before it is kept, the match replaced
\* (after an empty match the character at j is kept too)
SubMatch(p, repl, s, i, j, e) ==
    SubSeq(s, i, j - 1) \o repl
        \o (IF e = j THEN <<s[j]>> \o SubFrom(p, repl, s, j + 1) ELSE SubFrom(p, repl, s, e))

\* hits: the positions from i on where p matches
SubHits(p, repl, s, i, hits) ==
    IF hits = {} THEN SubSeq(s, i, Len(s))
    ELSE SubMatch(p, repl, s, i, Least(hits), Head(Match(p, s, <<Least(hits), <<>>>>))[1])

SubFrom(p, repl, s, i) ==
    SubHits(p, repl, s, i, {j \in i..Len(s) : Match(p, s, <<j, <<>>>>) # <<>>})

ReSub(p, repl, s) == SubFrom(p, repl, s, 1)

\* str.strip()
Inked(s) == {i \in 1..Len(s) : s[i] \notin WhiteSpace}

Strip(s) == IF Inked(s) = {} THEN <<>> ELSE SubSeq(s, Least(Inked(s)), Greatest(Inked(s)))

\* "\n".join(xs)
RECURSIVE JoinNL(_)
JoinNL(xs) ==
    IF xs = <<>> THEN <<>>
    ELSE IF Len(xs) = 1 THEN xs[1]
    ELSE xs[1] \o <<"NL">> \o JoinNL(Tail(xs))

--------------------------------------------------------------------------
(* Configuration and patterns *)

USER_NAME == <<"I", "o", "m", "a", "r">>

SOURCE == "whatsapp"

Unknown == <<"U", "n", "k", "n", "o", "w", "n">>

None == <<"None">>

D2 == Rep(D, 2, 2)

\* \[(\d{2}/\d{2}/\d{4}), (\d{2}:\d{2}:\d{2})\] (.+?): (.*)
TIMESTAMP_PATTERN ==
    Seqn(<<Lit(<<"[">>),
           Grp(Seqn(<<D2, Lit(<<"/">>), D2, Lit(<<"/">>), Rep(D, 4, 4)>>)),
           Lit(<<",", " ">>),
           Grp(Seqn(<<D2, Lit(<<":">>), D2, Lit(<<":">>), D2>>)),
           Lit(<<"]", " ">>),
           Grp(Lazy(AnyChar, 1, Inf)),
           Lit(<<":", " ">>),
           Grp(Rep(AnyChar, 0, Inf))>>)

\* https?://\S+
LINK_PATTERN ==
    Seqn(<<Lit(<<"h", "t", "t", "p">>), Opt(Lit(<<"s">>)), Lit(<<":", "/", "/">>),
           Rep(NotCls(WhiteSpace), 1, Inf)>>)

\* each is matched with re.IGNORECASE; the final "." of the two deletion notices
\* and the ".*" of the encryption banner are pattern syntax, not text
MEDIA_PATTERNS == <<
        LitI(<<"i", "m", "a", "g", "e", " ", "o", "m", "i", "t", "t", "e", "d">>),
        LitI(<<"v", "i", "d", "e", "o", " ", "o", "m", "i", "t", "t", "e", "d">>),
        LitI(<<"G", "I", "F", " ", "o", "m", "i", "t", "t", "e", "d">>),
        LitI(<<"s", "t", "i", "c", "k", "e", "r", " ", "o", "m", "i", "t", "t", "e", "d">>),
        LitI(<<"a", "u", "d", "i", "o", " ", "o", "m", "i", "t", "t", "e", "d">>),
        LitI(<<"d", "o", "c", "u", "m", "e", "n", "t", " ", "o", "m", "i", "t", "t", "e", "d">>),
        LitI(<<"m", "e", "d", "i", "a", " ", "o", "m", "i", "t", "t", "e", "d">>),
        LitI(<<"f", "i", "l", "e", " ", "o", "m", "i", "t", "t", "e", "d">>),
        LitI(<<"C", "o", "n", "t", "a", "c", "t", " ", "c", "a", "r", "d", " ", "o", "m", "i", "t", "t", "e", "d">>),
        LitI(<<"L", "o", "c", "a", "t", "i", "o", "n", " ", "o", "m", "i", "t", "t", "e", "d">>),
        LitI(<<"L", "i", "v", "e", " ", "l", "o", "c", "a", "t", "i", "o", "n", " ", "e", "n", "d", "e", "d">>),
        LitI(<<"L", "i", "v", "e", " ", "l", "o", "c", "a", "t", "i", "o", "n", " ", "s", "h", "a", "r", "e", "d">>),
        Seqn(<<LitI(<<"Y", "o", "u", " ", "d", "e", "l", "e", "t", "e", "d", " ", "t", "h", "i", "s", " ", "m", "e", "s", "s", "a", "g", "e">>), AnyChar>>),
        Seqn(<<LitI(<<"T", "h", "i", "s", " ", "m", "e", "s", "s", "a", "g", "e", " ", "w", "a", "s", " ", "d", "e", "l", "e", "t", "e", "d">>), AnyChar>>),
        Seqn(<<LitI(<<"M", "e", "s", "s", "a", "g", "e", "s", " ", "a", "n", "d", " ", "c", "a", "l", "l", "s", " ", "a", "r", "e", " ", "e", "n", "d", "-", "t", "o", "-", "e", "n", "d", " ", "e", "n", "c", "r", "y", "p", "t", "e", "d">>), Rep(AnyChar, 0, Inf)>>)
    >>

\* (Missed )?(Voice|Video) call(, .*)?  with re.IGNORECASE
CALL_PATTERN ==
    Seqn(<<Opt(Grp(LitI(<<"M", "i", "s", "s", "e", "d", " ">>))),
           Grp(Alt(<<LitI(<<"V", "o", "i", "c", "e">>), LitI(<<"V", "i", "d", "e", "o">>)>>)),
           LitI(<<" ", "c", "a", "l", "l">>),
           Opt(Grp(Seqn(<<LitI(<<",", " ">>), Rep(AnyChar, 0, Inf)>>)))>>)

\* ^[\W\s]+$
EMOJI_ONLY_PATTERN ==
    Seqn(<<Bol, Rep(Alt(<<NotCls(WordChar), SpaceCls>>), 1, Inf), Eol>>)

\* one or more code points of the emoji ranges
EMOJI_PATTERN == Rep(Cls(EmojiChar), 1, Inf)

\* <This message was edited>  with re.IGNORECASE
EDIT_MARKER ==
    LitI(<<"<", "T", "h", "i", "s", " ", "m", "e", "s", "s", "a", "g", "e", " ", "w", "a", "s", " ", "e", "d", "i", "t", "e", "d", ">">>)

AsciiLower == Range(LowerSeq)

UpperOrDigit == Cls(Upper \cup Digit)

\* \b[A-Z]{2}[0-9]{2}(?:[ ]?[A-Z0-9]){11,30}\b
IBAN_PATTERN ==
    Seqn(<<WordB, Rep(Cls(Upper), 2, 2), Rep(D, 2, 2),
           Rep(Seqn(<<Opt(Cls({" "})), UpperOrDigit>>), 11, 30), WordB>>)

\* \b[0-9A-Z]{10,34}\b
RIB_PATTERN == Seqn(<<WordB, Rep(UpperOrDigit, 10, 34), WordB>>)

\* \b(?:\d[ -]?){13,19}\d\b
CREDIT_CARD_PATTERN ==
    Seqn(<<WordB, Rep(Seqn(<<D, Opt(Cls({" ", "-"}))>>), 13, 19), D, WordB>>)

SpaceOrDash == Cls(WhiteSpace \cup {"-"})

\* \b(?:\+?\d{1,3}[\s-]?)?(?:\(?\d{2,4}\)?[\s-]?)?\d{3,4}[\s-]?\d{3,4}\b
PHONE_PATTERN ==
    Seqn(<<WordB,
           Opt(Seqn(<<Opt(Cls({"+"})), Rep(D, 1, 3), Opt(SpaceOrDash)>>)),
           Opt(Seqn(<<Opt(Cls({"("})), Rep(D, 2, 4), Opt(Cls({")"})), Opt(SpaceOrDash)>>)),
           Rep(D, 3, 4), Opt(SpaceOrDash), Rep(D, 3, 4), WordB>>)

\* [a-zA-Z0-9._%+-]+@[a-zA-Z0-9.-]+\.[a-z]{2,}
EMAIL_PATTERN ==
    Seqn(<<Rep(Cls(AsciiLower \cup Upper \cup Digit \cup {".", "_", "%", "+", "-"}), 1, Inf),
           Cls({"@"}),
           Rep(Cls(AsciiLower \cup Upper \cup Digit \cup {".", "-"}), 1, Inf),
           Cls({"."}), Rep(Cls(AsciiLower), 2, Inf)>>)

\* \b[A-Z]{4}[ ]?[A-Z]{2}[ ]?[A-Z0-9]{2}([ ]?[A-Z0-9]{3})?\b
BIC_PATTERN ==
    Seqn(<<WordB, Rep(Cls(Upper), 4, 4), Opt(Cls({" "})), Rep(Cls(Upper), 2, 2),
           Opt(Cls({" "})), Rep(UpperOrDigit, 2, 2),
           Opt(Grp(Seqn(<<Opt(Cls({" "})), Rep(UpperOrDigit, 3, 3)>>))), WordB>>)

\* \n?\[\d{2}/\d{2}/\d{4}, \d{2}:\d{2}:\d{2}\].+?:\s*$
TRAILING_STAMP ==
    Seqn(<<Opt(Cls({"NL"})), Lit(<<"[">>), D2, Lit(<<"/">>), D2, Lit(<<"/">>), Rep(D, 4, 4),
           Lit(<<",", " ">>), D2, Lit(<<":">>), D2, Lit(<<":">>), D2, Lit(<<"]">>),
           Lazy(AnyChar, 1, Inf), Lit(<<":">>), Rep(SpaceCls, 0, Inf), Eol>>)

REDACTED_IBAN == <<"[", "R", "E", "D", "A", "C", "T", "E", "D", "_", "I", "B", "A", "N", "]">>
REDACTED_RIB == <<"[", "R", "E", "D", "A", "C", "T", "E", "D", "_", "R", "I", "B", "]">>
REDACTED_CARD == <<"[", "R", "E", "D", "A", "C", "T", "E", "D", "_", "C", "A", "R", "D", "]">>
REDACTED_PHONE == <<"[", "R", "E", "D", "A", "C", "T", "E", "D", "_", "P", "H", "O", "N", "E", "]">>
REDACTED_EMAIL == <<"[", "R", "E", "D", "A", "C", "T", "E", "D", "_", "E", "M", "A", "I", "L", "]">>
REDACTED_BIC == <<"[", "R", "E", "D", "A", "C", "T", "E", "D", "_", "B", "I", "C", "]">>

--------------------------------------------------------------------------
(* Helper functions *)

\* ''.join(c for c in text if c.isprintable()).strip()
strip_invisible(text) == Strip(SelectSeq(text, LAMBDA c : c \notin NonPrintable))

remove_emojis(text) == ReSub(EMOJI_PATTERN, <<>>, text)

\* the six redaction passes, in their order
redact(text) ==
    ReSub(BIC_PATTERN, REDACTED_BIC,
      ReSub(EMAIL_PATTERN, REDACTED_EMAIL,
        ReSub(PHONE_PATTERN, REDACTED_PHONE,
          ReSub(CREDIT_CARD_PATTERN, REDACTED_CARD,
            ReSub(RIB_PATTERN, REDACTED_RIB,
              ReSub(IBAN_PATTERN, REDACTED_IBAN, text))))))

clean_message(text) ==
    Strip(redact(ReSub(EDIT_MARKER, <<>>, ReSub(LINK_PATTERN, <<>>, remove_emojis(text)))))

ACK_TOKENS ==
    {<<"o", "k">>, <<"l", "o", "l">>, <<"U+00FC", "U+00EB", "U+00E7">>,
     <<"U+00FC", "U+00EB", "U+00E5">>, <<"y", "e", "s">>, <<"n", "o">>}

\* faulty variant: the media placeholders are searched for instead of matched in full
Irrelevant_Search(stripped) ==
    \/ \E i \in 1..Len(MEDIA_PATTERNS) : \E j \in 1..Len(stripped) :
          Match(MEDIA_PATTERNS[i], stripped, <<j, <<>>>>) # <<>>
    \/ ReFullMatch(CALL_PATTERN, stripped)
    \/ ReFullMatch(EMOJI_ONLY_PATTERN, remove_emojis(stripped))
    \/ ToLower(stripped) \in ACK_TOKENS

Irrelevant(stripped) ==
    \/ \E i \in 1..Len(MEDIA_PATTERNS) : ReFullMatch(MEDIA_PATTERNS[i], stripped)
    \/ ReFullMatch(CALL_PATTERN, stripped)
    \/ ReFullMatch(EMOJI_ONLY_PATTERN, remove_emojis(stripped))
    \/ ToLower(stripped) \in ACK_TOKENS

is_irrelevant(text) == Irrelevant(Strip(text))

\* the groups of a match of TIMESTAMP_PATTERN
Group(s, m, k) == SubSeq(s, m[2][k][1], m[2][k][2])

--------------------------------------------------------------------------
(* Dates: datetime.strptime(..., "%d/%m/%Y %H:%M:%S") and date.isoformat() *)

RECURSIVE ParseInt(_)
ParseInt(s) == IF s = <<>> THEN 0 ELSE 10 * ParseInt(SubSeq(s, 1, Len(s) - 1)) + DigitVal(s[Len(s)])

IsLeap(y) == (y % 4 = 0 /\ y % 100 # 0) \/ y % 400 = 0

DaysIn(m, y) ==
    IF m = 2 THEN (IF IsLeap(y) THEN 29 ELSE 28)
    ELSE IF m \in {4, 6, 9, 11} THEN 30 ELSE 31

\* whether strptime returns (it raises ValueError otherwise);
\* date_str is DD/MM/YYYY and time_str HH:MM:SS, as the header pattern captured them
StrptimeOk(date_str, time_str) ==
    LET d == ParseInt(SubSeq(date_str, 1, 2))
        m == ParseInt(SubSeq(date_str, 4, 5))
        y == ParseInt(SubSeq(date_str, 7, 10))
        hh == ParseInt(SubSeq(time_str, 1, 2))
        mm == ParseInt(SubSeq(time_str, 4, 5))
        ss == ParseInt(SubSeq(time_str, 7, 8))
    IN  /\ y >= 1
        /\ m >= 1 /\ m <= 12
        /\ d >= 1 /\ d <= DaysIn(m, y)
        /\ hh <= 23 /\ mm <= 59 /\ ss <= 59

Pad2(n) == <<DigitChar(n \div 10), DigitChar(n % 10)>>

Pad4(n) == <<DigitChar(n \div 1000), DigitChar((n \div 100) % 10),
             DigitChar((n \div 10) % 10), DigitChar(n % 10)>>

\* dt.date().isoformat(): YYYY-MM-DD
IsoDate(date_str) ==
    Pad4(ParseInt(SubSeq(date_str, 7, 10))) \o <<"-">>
        \o Pad2(ParseInt(SubSeq(date_str, 4, 5))) \o <<"-">>
        \o Pad2(ParseInt(SubSeq(date_str, 1, 2)))

\* code point order of the characters of an ISO date
Ord(c) == IF c = "-" THEN 45 ELSE 48 + DigitVal(c)

\* a < b for str
RECURSIVE StrLess(_, _)
StrLess(a, b) ==
    IF b = <<>> THEN FALSE
    ELSE IF a = <<>> THEN TRUE
    ELSE IF Head(a) = Head(b) THEN StrLess(Tail(a), Tail(b))
    ELSE Ord(Head(a)) < Ord(Head(b))

--------------------------------------------------------------------------
(* dict, as the list of its <<key, value>> items in insertion order *)

Has(d, k) == \E i \in 1..Len(d) : d[i][1] = k

Get(d, k, default) ==
    IF Has(d, k) THEN d[CHOOSE i \in 1..Len(d) : d[i][1] = k][2] ELSE default

Put(d, k, v) ==
    IF Has(d, k) THEN [i \in 1..Len(d) |-> IF d[i][1] = k THEN <<k, v>> ELSE d[i]]
    ELSE Append(d, <<k, v>>)

\* faulty variant: the items are left in insertion order
SortedItems_Unsorted(d) == d

\* sorted(d.items()): keys are distinct, so the items are ordered by key
RECURSIVE SortedItems(_)
SortedItems(d) ==
    IF d = <<>> THEN <<>>
    ELSE LET i == CHOOSE i \in 1..Len(d) : \A j \in 1..Len(d) : ~StrLess(d[j][1], d[i][1])
         IN  <<d[i]>> \o SortedItems(SubSeq(d, 1, i - 1) \o SubSeq(d, i + 1, Len(d)))

--------------------------------------------------------------------------
(* parse_message_block *)

\* what log_skip writes for a block: "\n".join(block).strip()
LoggedText(block) == Strip(JoinNL(block))

\* the lines kept of a block: the cleaning of a line that is no timestamp line,
\* when it is not empty
KeepCleaned(cleaned) == IF cleaned # <<>> THEN <<cleaned>> ELSE <<>>

KeepLine(stripped) ==
    IF ReMatch(TIMESTAMP_PATTERN, stripped) # <<>> THEN <<>>
    ELSE KeepCleaned(clean_message(stripped))

RECURSIVE FilterLines(_)
FilterLines(ls) ==
    IF ls = <<>> THEN <<>>
    ELSE KeepLine(strip_invisible(Head(ls))) \o FilterLines(Tail(ls))

Role(sender) == IF Strip(sender) = USER_NAME THEN "user" ELSE "assistant"

\* the first steps of parse_message_block: the line is normalized and matched
\* against the header pattern; <<>> for no match, else the four groups
Groups(s, m) ==
    IF m = <<>> THEN <<>>
    ELSE <<Group(s, m[1], 1), Group(s, m[1], 2), Group(s, m[1], 3), Group(s, m[1], 4)>>

MatchLine(s) == Groups(s, ReMatch(TIMESTAMP_PATTERN, s))

match_groups(line) == MatchLine(strip_invisible(line))

\* the text of a block: the kept lines joined, a trailing timestamp removed
FullText(first_line, block) ==
    Strip(ReSub(TRAILING_STAMP, <<>>, JoinNL(FilterLines(<<first_line>> \o Tail(block)))))

\* parse_message_block once the text is assembled
Classified(block, date_str, sender, full_text) ==
    IF full_text = <<>>
    THEN [kind |-> "skip", reason |-> "Empty after cleaning", text |-> LoggedText(block)]
    ELSE IF is_irrelevant(full_text)
    THEN [kind |-> "skip", reason |-> "Irrelevant content", text |-> LoggedText(block)]
    ELSE [kind |-> "ok", role |-> Role(sender), text |-> full_text,
          date |-> IsoDate(date_str),
          peer |-> IF Role(sender) = "assistant" THEN Strip(sender) ELSE USER_NAME]

\* parse_message_block once the first line is matched; g is <<>> or
\* <<date_str, time_str, sender, first_line>>
Parsed(block, g) ==
    IF g = <<>>
    THEN [kind |-> "skip", reason |-> "No match", text |-> LoggedText(block)]
    ELSE IF ~StrptimeOk(g[1], g[2]) THEN [kind |-> "raise"]
    ELSE Classified(block, g[1], g[3], FullText(g[4], block))

\* kind "raise": strptime raised; kind "skip": logged and None returned;
\* kind "ok": the dict returned
parse_message_block(block) == Parsed(block, match_groups(block[1]))

--------------------------------------------------------------------------
(* The block segmenter of process_chat_file *)

\* re.match(TIMESTAMP_PATTERN, strip_invisible(line)) is not None
IsHeader(line) == ReMatch(TIMESTAMP_PATTERN, strip_invisible(line)) # <<>>

\* faulty variant: a line that is no header opens a block when none is open
SegStep_OpensOnAnyLine(st, line) ==
    IF IsHeader(line)
    THEN <<IF st[2] # <<>> THEN Append(st[1], st[2]) ELSE st[1], <<line>>>>
    ELSE <<st[1], Append(st[2], line)>>

\* one iteration of the loop over lines; st is <<message_blocks, current_block>>
SegStep(st, line) ==
    IF IsHeader(line)
    THEN <<IF st[2] # <<>> THEN Append(st[1], st[2]) ELSE st[1], <<line>>>>
    ELSE IF st[2] # <<>> THEN <<st[1], Append(st[2], line)>> ELSE st

RECURSIVE SegLoop(_, _)
SegLoop(st, ls) == IF ls = <<>> THEN st ELSE SegLoop(SegStep(st, Head(ls)), Tail(ls))

\* faulty variant: the block open at the end of the input is not closed
Segment_NoFinalClose(ls) == SegLoop(<<<<>>, <<>>>>, ls)[1]

Segment(ls) ==
    LET st == SegLoop(<<<<>>, <<>>>>, ls)
    IN  IF st[2] # <<>> THEN Append(st[1], st[2]) ELSE st[1]

\* re.sub(r"[^\w\s-]", "", peer_name).strip().replace(" ", "_")
Replace(s, old, new) == [i \in 1..Len(s) |-> IF s[i] = old THEN new ELSE s[i]]

safe_name(peer) ==
    Replace(Strip(ReSub(NotCls(WordChar \cup WhiteSpace \cup {"-"}), <<>>, peer)), " ", "_")

\* os.path.join(OUT_FOLDER, f"{safe_name}.json"), within OUT_FOLDER
output_file(peer) == safe_name(peer) \o <<".", "j", "s", "o", "n">>

\* peer_name or "Unknown"
OrUnknown(p) == IF p = None \/ p = <<>> THEN Unknown ELSE p

--------------------------------------------------------------------------
(* Inputs *)

MaxLines == 3

MaxFiles == 2

MaxBatchLines == 1

MaxSegLen == 2

MaxTail == 6

HeaderLine(date, time, rest) ==
    <<"[">> \o date \o <<",", " ">> \o time \o <<"]", " ">> \o rest \o <<"NL">>

\* [05/03/2024, 14:22:10] Iomar: Call me at 06 12 34 56 78
LineScenario1 ==
    HeaderLine(<<"0", "5", "/", "0", "3", "/", "2", "0", "2", "4">>,
               <<"1", "4", ":", "2", "2", ":", "1", "0">>,
               <<"I", "o", "m", "a", "r", ":", " ", "C", "a", "l", "l", " ", "m", "e", " ",
                 "a", "t", " ", "0", "6", " ", "1", "2", " ", "3", "4", " ", "5", "6", " ",
                 "7", "8">>)

\* image omitted
LineImage == <<"i", "m", "a", "g", "e", " ", "o", "m", "i", "t", "t", "e", "d", "NL">>

\* [01/04/2024, 10:00:00]  : hello        (the sender is one space)
LineBlankSender ==
    HeaderLine(<<"0", "1", "/", "0", "4", "/", "2", "0", "2", "4">>,
               <<"1", "0", ":", "0", "0", ":", "0", "0">>,
               <<" ", ":", " ", "h", "e", "l", "l", "o">>)

\* [02/01/2024, 09:30:00] Bob: hey
LineBob ==
    HeaderLine(<<"0", "2", "/", "0", "1", "/", "2", "0", "2", "4">>,
               <<"0", "9", ":", "3", "0", ":", "0", "0">>,
               <<"B", "o", "b", ":", " ", "h", "e", "y">>)

\* [31/02/2024, 10:00:00] Bob: hi         (no such day)
LineBadDate ==
    HeaderLine(<<"3", "1", "/", "0", "2", "/", "2", "0", "2", "4">>,
               <<"1", "0", ":", "0", "0", ":", "0", "0">>,
               <<"B", "o", "b", ":", " ", "h", "i">>)

\* [05/03/2024, 14:23:00] Bob: <one emoji>
LineEmoji ==
    HeaderLine(<<"0", "5", "/", "0", "3", "/", "2", "0", "2", "4">>,
               <<"1", "4", ":", "2", "3", ":", "0", "0">>,
               <<"B", "o", "b", ":", " ", "EMOJI">>)

LinePool == {LineScenario1, LineImage, LineBlankSender, LineBob, LineBadDate, LineEmoji}

BatchPool == {LineScenario1, LineBob, LineBadDate}

SegPool == {LineBob, LineEmoji, LineImage}

TailChars == {":", " ", "a"}

SeqsUpTo(S, n) == UNION {[1..k -> S] : k \in 0..n}

\* [01/01/2024, 10:00:00] <tail>
TailLine(tail) ==
    <<"[", "0", "1", "/", "0", "1", "/", "2", "0", "2", "4", ",", " ",
      "1", "0", ":", "0", "0", ":", "0", "0", "]", " ">> \o tail

--------------------------------------------------------------------------
(* process_all_chats and process_chat_file *)

InitRun(fs) ==
    /\ folder = fs
    /\ fileIdx = 1
    /\ pc = "list"
    /\ lines = <<>>
    /\ message_blocks = <<>>
    /\ blkIdx = 1
    /\ daily_conversations = <<>>
    /\ peers_by_date = <<>>
    /\ peer_name = None
    /\ logs = [i \in 1..Len(fs) |-> <<>>]
    /\ conversations = <<>>
    /\ all_conversations = <<>>
    /\ out_files = <<>>
    /\ returned = <<>>
    /\ arg = <<>>
    /\ res = <<>>

\* one chat file in the folder
Init == \E f \in SeqsUpTo(LinePool, MaxLines) : InitRun(<<f>>)

\* several chat files in the folder, in the order os.listdir yields them
InitBatch == \E fs \in SeqsUpTo(SeqsUpTo(BatchPool, MaxBatchLines), MaxFiles) : InitRun(fs)

\* process_chat_file up to the loop over the blocks: the log is cleared, the
\* lines read and segmented
OpenFile ==
    /\ pc = "list"
    /\ fileIdx <= Len(folder)
    /\ lines' = folder[fileIdx]
    /\ logs' = [logs EXCEPT ![fileIdx] = <<>>]
    /\ message_blocks' = Segment(folder[fileIdx])
    /\ daily_conversations' = <<>>
    /\ peers_by_date' = <<>>
    /\ peer_name' = None
    /\ blkIdx' = 1
    /\ pc' = "parse"
    /\ UNCHANGED <<folder, fileIdx, conversations, all_conversations, out_files,
                   returned, arg, res>>

\* faulty variant: a block that is empty after cleaning is dropped without a log entry
Handle_SkipUnlogged(parsed) ==
    CASE parsed.kind = "raise" ->
            /\ pc' = "crashed"
            /\ UNCHANGED <<blkIdx, logs, peer_name, peers_by_date, daily_conversations>>
      [] parsed.kind = "skip" ->
            /\ logs' = IF parsed.reason = "Empty after cleaning" THEN logs
                       ELSE [logs EXCEPT ![fileIdx] =
                                Append(@, [reason |-> parsed.reason, text |-> parsed.text,
                                           blk |-> blkIdx])]
            /\ blkIdx' = blkIdx + 1
            /\ UNCHANGED <<pc, peer_name, peers_by_date, daily_conversations>>
      [] parsed.kind = "ok" ->
            /\ peer_name' =
                  IF parsed.role = "assistant" /\ (peer_name = None \/ peer_name = <<>>)
                  THEN parsed.peer ELSE peer_name
            /\ peers_by_date' =
                  IF parsed.role = "assistant" /\ ~Has(peers_by_date, parsed.date)
                  THEN Put(peers_by_date, parsed.date, parsed.peer) ELSE peers_by_date
            /\ daily_conversations' =
                  Put(daily_conversations, parsed.date,
                      Append(Get(daily_conversations, parsed.date, <<>>),
                             [role |-> parsed.role, text |-> parsed.text, blk |-> blkIdx]))
            /\ blkIdx' = blkIdx + 1
            /\ UNCHANGED <<pc, logs>>

\* the body of the loop over the blocks once the block is parsed; entries
\* carry the index of their block (blk)
Handle(parsed) ==
    CASE parsed.kind = "raise" ->
            /\ pc' = "crashed"
            /\ UNCHANGED <<blkIdx, logs, peer_name, peers_by_date, daily_conversations>>
      [] parsed.kind = "skip" ->
            /\ logs' = [logs EXCEPT ![fileIdx] =
                           Append(@, [reason |-> parsed.reason, text |-> parsed.text,
                                      blk |-> blkIdx])]
            /\ blkIdx' = blkIdx + 1
            /\ UNCHANGED <<pc, peer_name, peers_by_date, daily_conversations>>
      [] parsed.kind = "ok" ->
            /\ peer_name' =
                  IF parsed.role = "assistant" /\ (peer_name = None \/ peer_name = <<>>)
                  THEN parsed.peer ELSE peer_name
            /\ peers_by_date' =
                  IF parsed.role = "assistant" /\ ~Has(peers_by_date, parsed.date)
                  THEN Put(peers_by_date, parsed.date, parsed.peer) ELSE peers_by_date
            /\ daily_conversations' =
                  Put(daily_conversations, parsed.date,
                      Append(Get(daily_conversations, parsed.date, <<>>),
                             [role |-> parsed.role, text |-> parsed.text, blk |-> blkIdx]))
            /\ blkIdx' = blkIdx + 1
            /\ UNCHANGED <<pc, logs>>

\* the body of the loop over the blocks
ParseBlock ==
    /\ pc = "parse"
    /\ blkIdx <= Len(message_blocks)
    /\ Handle(parse_message_block(message_blocks[blkIdx]))
    /\ UNCHANGED <<folder, fileIdx, lines, message_blocks, conversations,
                   all_conversations, out_files, returned, arg, res>>

\* the list process_chat_file builds after the loop
RecordsOf(items, pbd, pn) ==
    [i \in 1..Len(items) |->
        [dialogue |-> [j \in 1..Len(items[i][2]) |->
                          [role |-> items[i][2][j].role, text |-> items[i][2][j].text]],
         meta |-> [source |-> SOURCE, date |-> items[i][1],
                   peer |-> Get(pbd, items[i][1], OrUnknown(pn))]]]

Records(dc, pbd, pn) == RecordsOf(SortedItems(dc), pbd, pn)

\* process_chat_file after the loop: the records are built and returned
EmitRecords ==
    /\ pc = "parse"
    /\ blkIdx > Len(message_blocks)
    /\ conversations' = Records(daily_conversations, peers_by_date, peer_name)
    /\ returned' = Append(returned, [file |-> fileIdx, conversations |-> conversations',
                                     peer_name |-> OrUnknown(peer_name)])
    /\ pc' = "write"
    /\ UNCHANGED <<folder, fileIdx, lines, message_blocks, blkIdx, daily_conversations,
                   peers_by_date, peer_name, logs, all_conversations, out_files, arg, res>>

\* process_all_chats after process_chat_file returned: the per-peer file is written
WriteOutput ==
    /\ pc = "write"
    /\ all_conversations' = all_conversations \o conversations
    /\ out_files' = Put(out_files, output_file(OrUnknown(peer_name)), conversations)
    /\ fileIdx' = fileIdx + 1
    /\ pc' = "list"
    /\ UNCHANGED <<folder, lines, message_blocks, blkIdx, daily_conversations,
                   peers_by_date, peer_name, logs, conversations, returned, arg, res>>

\* the loop over the folder ends
Finish ==
    /\ pc = "list"
    /\ fileIdx > Len(folder)
    /\ pc' = "done"
    /\ UNCHANGED <<folder, fileIdx, lines, message_blocks, blkIdx, daily_conversations,
                   peers_by_date, peer_name, logs, conversations, all_conversations,
                   out_files, returned, arg, res>>

Next == OpenFile \/ ParseBlock \/ EmitRecords \/ WriteOutput \/ Finish

Spec == Init /\ [][Next]_vars

SpecBatch == InitBatch /\ [][Next]_vars

--------------------------------------------------------------------------
(* The segmenter and the line classifier on their own *)

InitPure(a, p) ==
    /\ arg = a
    /\ res = <<>>
    /\ pc = p
    /\ folder = <<>>
    /\ fileIdx = 1
    /\ lines = <<>>
    /\ message_blocks = <<>>
    /\ blkIdx = 1
    /\ daily_conversations = <<>>
    /\ peers_by_date = <<>>
    /\ peer_name = None
    /\ logs = <<>>
    /\ conversations = <<>>
    /\ all_conversations = <<>>
    /\ out_files = <<>>
    /\ returned = <<>>

pureUnchanged ==
    UNCHANGED <<folder, fileIdx, lines, message_blocks, blkIdx, daily_conversations,
                peers_by_date, peer_name, logs, conversations, all_conversations,
                out_files, returned, arg>>

\* two line sequences A and B
InitSeg ==
    \E a \in SeqsUpTo(SegPool, MaxSegLen), b \in SeqsUpTo(SegPool, MaxSegLen) :
        InitPure(<<a, b>>, "segA")

SegmentA ==
    /\ pc = "segA"
    /\ res' = <<Segment(arg[1])>>
    /\ pc' = "segB"
    /\ pureUnchanged

SegmentB ==
    /\ pc = "segB"
    /\ res' = Append(res, Segment(arg[2]))
    /\ pc' = "segAB"
    /\ pureUnchanged

SegmentAB ==
    /\ pc = "segAB"
    /\ res' = Append(res, Segment(arg[1] \o arg[2]))
    /\ pc' = "segDone"
    /\ pureUnchanged

NextSeg == SegmentA \/ SegmentB \/ SegmentAB

SpecSeg == InitSeg /\ [][NextSeg]_vars

InitHeader == \E tail \in SeqsUpTo(TailChars, MaxTail) : InitPure(TailLine(tail), "classify")

Classify ==
    /\ pc = "classify"
    /\ res' = match_groups(arg)
    /\ pc' = "classified"
    /\ pureUnchanged

NextHeader == Classify

SpecHeader == InitHeader /\ [][NextHeader]_vars

--------------------------------------------------------------------------
(* The claims *)

\* the accepted and the skipped entries of the current file
RECURSIVE Concat(_)
Concat(xs) == IF xs = <<>> THEN <<>> ELSE Head(xs) \o Concat(Tail(xs))

Entries == Concat([i \in 1..Len(daily_conversations) |-> daily_conversations[i][2]])

SkipLog == logs[fileIdx]

Count(xs, b) == Cardinality({i \in 1..Len(xs) : xs[i].blk = b})

WithoutNL(s) == SelectSeq(s, LAMBDA c : c # "NL")

\* the calendar day of a header line, read off its first characters: [DD/MM/YYYY
DayOf(s) ==
    ParseInt(SubSeq(s, 8, 11)) * 10000 + ParseInt(SubSeq(s, 5, 6)) * 100
        + ParseInt(SubSeq(s, 2, 3))

CalKey(line) == DayOf(strip_invisible(line))

\* the calendar day of an ISO date YYYY-MM-DD
IsoKey(date) ==
    ParseInt(SubSeq(date, 1, 4)) * 10000 + ParseInt(SubSeq(date, 6, 7)) * 100
        + ParseInt(SubSeq(date, 9, 10))

\* process_chat_file has returned for the current file
Returned == pc = "write"

SkipReasons == {"No match", "Empty after cleaning", "Irrelevant content"}

\* C1: when process_chat_file runs to completion, every block ends in exactly one
\* of two outcomes: one entry appended to the dialogue of its date, or one skip-log
\* entry with one of the three reasons and the block's original text.
C1_ExactlyOneOutcome ==
    Returned =>
        /\ \A b \in 1..Len(message_blocks) :
              /\ Count(Entries, b) + Count(SkipLog, b) = 1
              /\ \A i \in 1..Len(daily_conversations) :
                    \A j \in 1..Len(daily_conversations[i][2]) :
                        daily_conversations[i][2][j].blk = b =>
                            /\ IsoKey(daily_conversations[i][1]) = CalKey(message_blocks[b][1])
                            /\ daily_conversations[i][2][j].role \in {"user", "assistant"}
              /\ \A i \in 1..Len(SkipLog) :
                    SkipLog[i].blk = b =>
                        /\ SkipLog[i].reason \in SkipReasons
                        /\ WithoutNL(SkipLog[i].text) = WithoutNL(Concat(message_blocks[b]))
        /\ Len(Entries) + Len(SkipLog) = Len(message_blocks)

\* a completed file with an accepted block and a skipped one
C1_Witness ==
    /\ Returned
    /\ Len(message_blocks) = 3
    /\ Entries # <<>>
    /\ SkipLog # <<>>

\* the outcome of every block, by the parser
Outcomes == [b \in 1..Len(message_blocks) |-> parse_message_block(message_blocks[b])]

\* the blocks accepted
AcceptedBlocks == {b \in 1..Len(message_blocks) : Outcomes[b].kind = "ok"}

\* the blocks of S in input order
RECURSIVE InOrderOf(_)
InOrderOf(S) == IF S = {} THEN <<>> ELSE <<Least(S)>> \o InOrderOf(S \ {Least(S)})

\* the dialogue expected for calendar day k: its accepted messages in block order
DialogueOf(k) ==
    LET bs == InOrderOf({b \in AcceptedBlocks : CalKey(message_blocks[b][1]) = k})
    IN  [j \in 1..Len(bs) |-> [role |-> Outcomes[bs[j]].role, text |-> Outcomes[bs[j]].text]]

\* C4: the returned list has exactly one record per calendar date with an accepted
\* message, never an empty dialogue, in strictly ascending date order, each dialogue
\* being that date's accepted messages in input order.
C4_OneRecordPerDateAscending ==
    Returned =>
        /\ Len(conversations)
              = Cardinality({CalKey(message_blocks[b][1]) : b \in AcceptedBlocks})
        /\ \A i \in 1..Len(conversations) :
              /\ conversations[i].dialogue # <<>>
              /\ conversations[i].dialogue = DialogueOf(IsoKey(conversations[i].meta.date))
        /\ \A i \in 1..(Len(conversations) - 1) :
              IsoKey(conversations[i].meta.date) < IsoKey(conversations[i + 1].meta.date)

\* two dates met out of order, one of them with two messages
C4_Witness ==
    /\ Returned
    /\ Len(conversations) = 2
    /\ daily_conversations[1][1] # conversations[1].meta.date
    /\ \E i \in 1..2 : Len(conversations[i].dialogue) = 2

HeaderIdx == {i \in 1..Len(lines) : IsHeader(lines[i])}

\* C8: the segmenter emits one block per header line, in input order; a block's
\* first line is a header and none of its later lines is; the blocks are the lines
\* from the first header on, cut at the headers; and "No match" is never logged.
C8_BlocksFollowHeaders ==
    /\ pc \in {"parse", "write", "crashed"} =>
          /\ Len(message_blocks) = Cardinality(HeaderIdx)
          /\ \A k \in 1..Len(message_blocks) :
                /\ IsHeader(message_blocks[k][1])
                /\ \A j \in 2..Len(message_blocks[k]) : ~IsHeader(message_blocks[k][j])
          /\ Concat(message_blocks)
                = IF HeaderIdx = {} THEN <<>> ELSE SubSeq(lines, Least(HeaderIdx), Len(lines))
    /\ \A f \in 1..Len(logs) : \A i \in 1..Len(logs[f]) : logs[f][i].reason # "No match"

\* a line before the first header, then a header with a continuation line, parsed
C8_Witness ==
    /\ Returned
    /\ Len(lines) = 3
    /\ ~IsHeader(lines[1])
    /\ Len(message_blocks) = 1
    /\ Len(message_blocks[1]) = 2

\* a completed file of two lines: a header line, then the line "image omitted"
HeaderThenImage ==
    /\ Returned
    /\ Len(lines) = 2
    /\ IsHeader(lines[1])
    /\ lines[2] = LineImage

NothingAcceptedOneIrrelevant ==
    /\ Entries = <<>>
    /\ Len(SkipLog) = 1
    /\ SkipLog[1].reason = "Irrelevant content"

SegDone == pc = "segDone"

HasBadDate(f) ==
    \E i \in 1..Len(f) : match_groups(f[i]) # <<>>
        /\ ~StrptimeOk(match_groups(f[i])[1], match_groups(f[i])[2])

\* C2: in a batch, an impossible date aborts only the file containing it: every
\* other file is processed and its output written.
C2_OtherFilesProcessed ==
    pc \in {"done", "crashed"} =>
        \A i \in 1..Len(folder) :
            ~HasBadDate(folder[i]) =>
                \E k \in 1..Len(returned) :
                    /\ returned[k].file = i
                    /\ Has(out_files, output_file(returned[k].peer_name))

\* the senders of the accepted assistant messages among the blocks of S, in order
AssistantSenders(S) ==
    LET bs == InOrderOf({b \in S : Role(match_groups(message_blocks[b][1])[3]) = "assistant"})
    IN  [j \in 1..Len(bs) |-> Strip(match_groups(message_blocks[bs[j]][1])[3])]

\* the peer expected for calendar day k, in two tiers
ExpectedPeer(k) ==
    LET ofDay == AssistantSenders({b \in AcceptedBlocks : CalKey(message_blocks[b][1]) = k})
        ofFile == AssistantSenders(AcceptedBlocks)
    IN  IF ofDay # <<>> THEN ofDay[1]
        ELSE IF ofFile # <<>> THEN ofFile[1]
        ELSE Unknown

\* C3: a record's peer is the sender of the first accepted assistant message of its
\* date, else of the whole file, else "Unknown"; a message's role is "user" exactly
\* when its trimmed sender is the self-identity.
C3_PeerInTwoTiers ==
    Returned =>
        /\ \A i \in 1..Len(conversations) :
              conversations[i].meta.peer = ExpectedPeer(IsoKey(conversations[i].meta.date))
        /\ \A i \in 1..Len(Entries) :
              (Entries[i].role = "user")
                  <=> (Strip(match_groups(message_blocks[Entries[i].blk][1])[3]) = USER_NAME)

\* C5: the line of scenario 1 is accepted as one "user" message whose text is
\* "Call me at [REDACTED_PHONE]".
C5_Scenario1Redacted ==
    (Returned /\ lines = <<LineScenario1>>) =>
        /\ Len(Entries) = 1
        /\ Entries[1].role = "user"
        /\ Entries[1].text
              = <<"C", "a", "l", "l", " ", "m", "e", " ", "a", "t", " ">> \o REDACTED_PHONE

\* C7: when the batch ends, every processed file has its output file, named from
\* its peer, holding exactly the records returned for that file.
C7_OutputPerFile ==
    pc = "done" =>
        \A k \in 1..Len(returned) :
            /\ Has(out_files, output_file(returned[k].peer_name))
            /\ Get(out_files, output_file(returned[k].peer_name), <<>>)
                  = returned[k].conversations

\* the places of ": " in a text
SepIdx(s) == {i \in 1..(Len(s) - 1) : s[i] = ":" /\ s[i + 1] = " "}

\* what follows the bracketed timestamp and its space
AfterStamp(line) == SubSeq(strip_invisible(line), 24, Len(strip_invisible(line)))

\* C10: for a line that matches the header pattern, the sender is the text between
\* the timestamp and the first ": " after it, the trailing text what follows that
\* ": "; the sender never contains ": ".
C10_FirstSeparator ==
    (pc = "classified" /\ res # <<>>) =>
        /\ SepIdx(AfterStamp(arg)) # {}
        /\ res[3] = SubSeq(AfterStamp(arg), 1, Least(SepIdx(AfterStamp(arg))) - 1)
        /\ res[4] = SubSeq(AfterStamp(arg), Least(SepIdx(AfterStamp(arg))) + 2,
                           Len(AfterStamp(arg)))
        /\ SepIdx(res[3]) = {}

====
